---- MODULE Spec2Model ----
(***************************************************************************)
(* Rank finder (google_rank_finder.py), page audit funnel                  *)
(* (page_optimizer.py) and batch loop (main_automator.py).                 *)
(*                                                                         *)
(* Python strings are sequences of one-character strings.  A results page  *)
(* is the sequence of its result containers in document order.             *)
(***************************************************************************)
EXTENDS Integers, Sequences, FiniteSets, TLC

VARIABLES
    serp,       \* SerpSpec: the input and the outputs of the scanner and the detour
    audit,      \* AuditSpec: the page state under audit and the funnel's progress
    rows,       \* the sheet's rows as loaded by get_data_from_sheet
    batch,      \* main_automator's position and locals
    ledger,     \* the cells written by worksheet.update_cell, per row, in order
    call,       \* find_google_rank's position and locals
    gate,       \* handle_captcha's position and locals
    marker      \* whether iframe[title="reCAPTCHA"] is in the page

vars == <<serp, audit, rows, batch, ledger, call, gate, marker>>

----------------------------------------------------------------------------
(* Strings *)

\* The whitespace of str.strip() and str.split() among the characters the
\* model writes: space, tab, line feed, carriage return, form feed
WS == {" ", "\t", "\n", "\r", "\f"}

RECURSIVE LStrip(_)
LStrip(s) == IF s # <<>> /\ Head(s) \in WS THEN LStrip(Tail(s)) ELSE s

RECURSIVE RStrip(_)
RStrip(s) ==
    IF s # <<>> /\ s[Len(s)] \in WS THEN RStrip(SubSeq(s, 1, Len(s) - 1)) ELSE s

\* str.strip()
Strip(s) == RStrip(LStrip(s))

\* Python's `sub in s`
Contains(sub, s) ==
    \E k \in 0..(Len(s) - Len(sub)) : SubSeq(s, k + 1, k + Len(sub)) = sub

----------------------------------------------------------------------------
(* Results page *)

MaxBlocks == 2

Urls == { <<"b", "a", "b">>, <<"b", "b">> }
Targets == { <<>>, <<"a", "b">>, <<"b", "b">> }
Headings == { <<>>, <<"\t", " ", "\n">>, <<"h">> }
Offsets == {0, 10}

\* One serp_selectors.RESULT_CONTAINER element:
\*   ad     it holds a [data-text-ad] element (an advertisement's heading is
\*          never read, line 156, so advertisements come with one heading)
\*   h3     "absent" (find_element raises NoSuchElementException) or "present"
\*   text   the h3's text
\*   link   "absent" (no LINK_CONTAINER), "nohref" (get_attribute gives None),
\*          or "url"
\*   href   the link's href when link = "url"
\*   raises the read of the container that raises something other than
\*          NoSuchElementException (a stale element, a lost session): "ad"
\*          (find_elements of line 156), "h3" (h3_element.text, line 158),
\*          "href" (get_attribute, line 165, of an organic container), or ""
\*          when every read answers; the other fields of a container that
\*          raises are never read past the raise and have one fixed value
Blocks ==
    { b \in [ad : BOOLEAN, h3 : {"absent", "present"}, text : Headings,
             link : {"absent", "nohref", "url"}, href : Urls \cup {<<>>},
             raises : {"", "ad", "h3", "href"}] :
        /\ (b.h3 = "absent") => (b.text = <<>>)
        /\ b.ad => (b.h3 = "present" /\ b.text = <<"h">>)
        /\ (b.link = "url") <=> (b.href # <<>>)
        /\ (b.raises # "") =>
              (~b.ad /\ b.h3 = "present" /\ b.text = <<"h">> /\ b.link = "nohref") }

Pages == UNION { [1..n -> Blocks] : n \in 0..MaxBlocks }

NoneNone == [found |-> FALSE, rank |-> 0, url |-> <<>>]

\* The filter of lines 154-160 without the advertisement test of line 156
IsOrganicWithAds(block) ==
    /\ block.h3 = "present"
    /\ Strip(block.text) # <<>>

\* lines 154-160: the filter that builds clean_organic_results
IsOrganic(block) ==
    /\ ~block.ad
    /\ block.h3 = "present"
    /\ Strip(block.text) # <<>>

clean_organic_results(page) == SelectSeq(page, IsOrganic)

\* lines 164-166: the test on one organic block
IsMatch(block, target_url) ==
    /\ block.link = "url"
    /\ block.href # <<>>
    /\ Contains(target_url, block.href)

\* lines 162-169: enumerate(clean_organic_results, start=1 + rank_offset); a
\* get_attribute that raises leaves the loop for the handler of line 170
RECURSIVE ScanFrom(_, _, _)
ScanFrom(organic, target_url, rank) ==
    IF organic = <<>> THEN NoneNone
    ELSE IF Head(organic).raises = "href" THEN NoneNone
    ELSE IF IsMatch(Head(organic), target_url)
         THEN [found |-> TRUE, rank |-> rank, url |-> Head(organic).href]
         ELSE ScanFrom(Tail(organic), target_url, rank + 1)

\* lines 154-160: a read of the filter loop raises something the inner
\* handler of line 160 does not catch
FilterRaises(page) == \E k \in 1..Len(page) : page[k].raises \in {"ad", "h3"}

\* _find_rank_on_current_page: an empty page times out the wait of line 151;
\* the handler of line 170 turns that, and whatever else the scan raises,
\* into (None, None)
find_rank_on_current_page(page, target_url, rank_offset) ==
    IF page = <<>> THEN NoneNone
    ELSE IF FilterRaises(page) THEN NoneNone
    ELSE ScanFrom(clean_organic_results(page), target_url, 1 + rank_offset)

----------------------------------------------------------------------------
(* Detour *)

DETOUR_SELECTORS == {"images", "videos", "news", "maps"}
detour_options == DETOUR_SELECTORS \cup {"random_link"}

\* What a detour did: the decoy chosen, what was clicked ("none", "link",
\* "tab"), the href of a clicked result link, whether driver.back() was
\* called, the exception raised inside the try of line 108 ("" if none) and
\* whether it left the function
NoDetour ==
    [chosen |-> "", clicked |-> "none", href |-> <<>>, back |-> FALSE,
     raised |-> "", escaped |-> FALSE]

\* lines 132-135: the handlers of perform_random_detour's try
\* (line 132 names two classes, line 134 is 'except Exception': every class)
DetourHandles(exc) ==
    \/ exc \in {"NoSuchElementException", "ElementClickInterceptedException"}
    \/ exc \in STRING

\* lines 132-135: the detour ends in a handler, or the exception leaves it
DetourRaised(chosen_detour, exc) ==
    [NoDetour EXCEPT !.chosen = chosen_detour, !.raised = exc,
                     !.escaped = ~DetourHandles(exc)]

\* get_attribute('href') or ''
HrefOrEmpty(res) == IF res.link = "url" THEN res.href ELSE <<>>

\* The filter of line 115 with inequality in place of containment
IsNonTargetExact(res, target_url) == HrefOrEmpty(res) # target_url

\* line 115: the filter of the list comprehension
IsNonTarget(res, target_url) == ~Contains(target_url, HrefOrEmpty(res))

\* lines 112-116, given that every container has a link element
non_target_links(all_results, target_url) ==
    SelectSeq(all_results, LAMBDA res : IsNonTarget(res, target_url))

\* lines 111-121: the generic decoy.  res.find_element raises
\* NoSuchElementException on a container without a link, which ends the detour
\* in the handler of line 132; pick is random.choice's index; a click that
\* raises ends in the handlers of lines 132-135.
random_link(all_results, target_url, pick, click_ok) ==
    LET links == non_target_links(all_results, target_url)
        n == Len(links)
        bad == { k \in 1..Len(all_results) :
                    all_results[k].link = "absent" \/ all_results[k].raises = "href" }
    IN  IF bad # {}
        THEN LET first == CHOOSE k \in bad : \A j \in bad : k <= j
             IN  DetourRaised("random_link",
                              IF all_results[first].raises = "href"
                              THEN "WebDriverException"
                              ELSE "NoSuchElementException")
        ELSE IF n = 0
        THEN [NoDetour EXCEPT !.chosen = "random_link"]        \* lines 119-121
        ELSE IF ~click_ok
        THEN DetourRaised("random_link", "ElementClickInterceptedException")
        ELSE [NoDetour EXCEPT !.chosen = "random_link", !.clicked = "link",
                              !.href = HrefOrEmpty(links[((pick - 1) % n) + 1]),
                              !.back = TRUE]

\* Lines 122-129 with driver.back() of line 129 in a finally clause
tab_detour_backs(chosen_detour, tab_present, click_ok) ==
    IF ~tab_present
    THEN [DetourRaised(chosen_detour, "NoSuchElementException") EXCEPT !.back = TRUE]
    ELSE IF ~click_ok
    THEN [DetourRaised(chosen_detour, "ElementClickInterceptedException")
            EXCEPT !.back = TRUE]
    ELSE [NoDetour EXCEPT !.chosen = chosen_detour, !.clicked = "tab", !.back = TRUE]

\* lines 122-129: a tab decoy; tab_present is whether the tab's selector finds
\* an element (find_element raises NoSuchElementException if not), click_ok
\* whether the click went through
tab_detour(chosen_detour, tab_present, click_ok) ==
    IF ~tab_present
    THEN DetourRaised(chosen_detour, "NoSuchElementException")
    ELSE IF ~click_ok
    THEN DetourRaised(chosen_detour, "ElementClickInterceptedException")
    ELSE [NoDetour EXCEPT !.chosen = chosen_detour, !.clicked = "tab", !.back = TRUE]

\* perform_random_detour, its random choices and the page's answers as
\* parameters
perform_random_detour(all_results, target_url, chosen_detour, pick, tab_present, click_ok) ==
    IF chosen_detour = "random_link"
    THEN random_link(all_results, target_url, pick, click_ok)
    ELSE tab_detour(chosen_detour, tab_present, click_ok)

----------------------------------------------------------------------------
(* Page audit funnel *)

\* n copies of the characters of unit
Rep(unit, n) == [k \in 1..(n * Len(unit)) |-> unit[((k - 1) % Len(unit)) + 1]]

Digits == <<"0", "1", "2", "3", "4", "5", "6", "7", "8", "9">>
IsDigit(c) == \E d \in 1..10 : Digits[d] = c
DigitValue(c) == (CHOOSE d \in 1..10 : Digits[d] = c) - 1

\* str.replace(',', '')
RemoveCommas(s) == SelectSeq(s, LAMBDA c : c # ",")

\* int() of a run of digits
RECURSIVE IntOf(_)
IntOf(ds) ==
    IF ds = <<>> THEN 0
    ELSE 10 * IntOf(SubSeq(ds, 1, Len(ds) - 1)) + DigitValue(ds[Len(ds)])

\* re.search(r'\d+', s): the leftmost longest run of digits, <<>> for no match
FirstDigits(s) ==
    IF \A k \in 1..Len(s) : ~IsDigit(s[k]) THEN <<>>
    ELSE LET first == CHOOSE k \in 1..Len(s) :
                        IsDigit(s[k]) /\ \A j \in 1..(k - 1) : ~IsDigit(s[j])
             last == CHOOSE k \in first..Len(s) :
                        /\ \A j \in first..k : IsDigit(s[j])
                        /\ (k = Len(s) \/ ~IsDigit(s[k + 1]))
         IN  SubSeq(s, first, last)

\* len(text.split()): the number of maximal runs of non-whitespace
WordCount(s) ==
    Cardinality({ k \in 1..Len(s) : s[k] \notin WS /\ (k = 1 \/ s[k - 1] \in WS) })

MinTitle == 45
MaxTitle == 70
MinMeta == 145
MaxMeta == 165
MinProducts == 13
MinWords == 250

Glyph == "*"     \* stands for the placeholder character of line 108

Yes == <<"Y", "e", "s">>
\* 'Analysis stopped due to < 13 products.'
StoppedValue ==
    <<"A", "n", "a", "l", "y", "s", "i", "s", " ", "s", "t", "o", "p", "p", "e", "d", " ", "d", "u", "e", " ", "t", "o", " ", "<", " ", "1", "3", " ", "p", "r", "o", "d", "u", "c", "t", "s", ".">>
\* 'All checks passed'
PassedValue == <<"A", "l", "l", " ", "c", "h", "e", "c", "k", "s", " ", "p", "a", "s", "s", "e", "d">>

\* check_for_deletion: sel is what find_elements(DELETION_SELECTOR) does:
\* "present", "absent", or "error" (it raises)
check_for_deletion(pg) == pg.deletion = "present"

\* check_for_tm_optimization with the bounds of lines 115 and 118 exclusive
check_for_tm_exclusive(pg) ==
    IF pg.title_state = "error" THEN FALSE
    ELSE IF pg.title = <<>> THEN TRUE
    ELSE IF pg.meta_state = "absent" THEN TRUE
    ELSE IF pg.meta_state = "error" THEN FALSE
    ELSE IF Contains(<<Glyph>>, pg.meta) THEN TRUE
    ELSE IF ~(MinTitle < Len(pg.title) /\ Len(pg.title) < MaxTitle) THEN TRUE
    ELSE IF ~(MinMeta < Len(pg.meta) /\ Len(pg.meta) < MaxMeta) THEN TRUE
    ELSE FALSE

\* check_for_tm_optimization
check_for_tm_optimization(pg) ==
    IF pg.title_state = "error" THEN FALSE                 \* line 122
    ELSE IF pg.title = <<>> THEN TRUE                      \* line 96
    ELSE IF pg.meta_state = "absent" THEN TRUE             \* line 103
    ELSE IF pg.meta_state = "error" THEN FALSE             \* line 122
    ELSE IF Contains(<<Glyph>>, pg.meta) THEN TRUE         \* line 108
    ELSE IF ~(MinTitle <= Len(pg.title) /\ Len(pg.title) <= MaxTitle) THEN TRUE
    ELSE IF ~(MinMeta <= Len(pg.meta) /\ Len(pg.meta) <= MaxMeta) THEN TRUE
    ELSE FALSE

\* is_product_count_sufficient
is_product_count_sufficient(pg) ==
    IF pg.count_state = "absent" THEN FALSE                \* line 152
    ELSE IF pg.count_state = "error" THEN FALSE            \* line 155
    ELSE LET match == FirstDigits(RemoveCommas(pg.count_text))
         IN  IF match = <<>> THEN FALSE                    \* line 149
             ELSE IF IntOf(match) < MinProducts THEN FALSE
             ELSE TRUE

\* check_for_content_optimization
check_for_content_optimization(pg) ==
    IF pg.seo_state = "absent" THEN TRUE                   \* line 178
    ELSE IF pg.seo_state = "error" THEN FALSE              \* line 181
    ELSE WordCount(pg.seo_text) < MinWords

\* The funnel with the title/meta check ahead of the deletion check
analyze_tm_first(pg, keyword) ==
    IF check_for_tm_optimization(pg)
    THEN [status |-> "T&M", value |-> Yes, ran |-> <<"tm">>]
    ELSE IF check_for_deletion(pg)
    THEN [status |-> "Deletion", value |-> Yes, ran |-> <<"tm", "deletion">>]
    ELSE IF ~is_product_count_sufficient(pg)
    THEN [status |-> "Low Product Count", value |-> StoppedValue,
          ran |-> <<"tm", "deletion", "count">>]
    ELSE IF check_for_content_optimization(pg)
    THEN [status |-> "Content", value |-> Yes,
          ran |-> <<"tm", "deletion", "count", "content">>]
    ELSE [status |-> "Optimized", value |-> PassedValue,
          ran |-> <<"tm", "deletion", "count", "content">>]

\* The funnel with the keyword as the value of line 203
analyze_deletion_keyword(pg, keyword) ==
    IF check_for_deletion(pg)
    THEN [status |-> "Deletion", value |-> keyword, ran |-> <<"deletion">>]
    ELSE IF check_for_tm_optimization(pg)
    THEN [status |-> "T&M", value |-> Yes, ran |-> <<"deletion", "tm">>]
    ELSE IF ~is_product_count_sufficient(pg)
    THEN [status |-> "Low Product Count", value |-> StoppedValue,
          ran |-> <<"deletion", "tm", "count">>]
    ELSE IF check_for_content_optimization(pg)
    THEN [status |-> "Content", value |-> Yes,
          ran |-> <<"deletion", "tm", "count", "content">>]
    ELSE [status |-> "Optimized", value |-> PassedValue,
          ran |-> <<"deletion", "tm", "count", "content">>]

\* analyze_myntra_page; ran lists the checks it called, in order
analyze_myntra_page(pg, keyword) ==
    IF check_for_deletion(pg)
    THEN [status |-> "Deletion", value |-> Yes, ran |-> <<"deletion">>]
    ELSE IF check_for_tm_optimization(pg)
    THEN [status |-> "T&M", value |-> Yes, ran |-> <<"deletion", "tm">>]
    ELSE IF ~is_product_count_sufficient(pg)
    THEN [status |-> "Low Product Count", value |-> StoppedValue,
          ran |-> <<"deletion", "tm", "count">>]
    ELSE IF check_for_content_optimization(pg)
    THEN [status |-> "Content", value |-> Yes,
          ran |-> <<"deletion", "tm", "count", "content">>]
    ELSE [status |-> "Optimized", value |-> PassedValue,
          ran |-> <<"deletion", "tm", "count", "content">>]

Titles == { Rep(<<"t">>, n) : n \in {0, MinTitle - 1, MinTitle, MaxTitle, MaxTitle + 1} }
Metas == { Rep(<<"m">>, n) : n \in {MinMeta - 1, MinMeta, MaxMeta, MaxMeta + 1} }
            \cup { <<Glyph>> \o Rep(<<"m">>, MinMeta) }
CountTexts == { <<>>, <<"n", "o">>, <<"-", " ", "1", "2", " ", "i">>, <<"1", "3">>,
                <<"1", ",", "2", "0", "0">>, <<"0", ",", "0", "1", "2", " ", "9", "9">> }
SeoTexts ==
    { Rep(<<"w", " ">>, n) : n \in {0, MinWords - 1, MinWords} }
        \cup { Rep(<<"w", "\n">>, MinWords), Rep(<<"w", " ", "\n", "\t">>, MinWords - 1) }

\* The state of the loaded page that the funnel reads
AuditPages ==
    { pg \in [deletion : {"present", "absent", "error"},
              title_state : {"ok", "error"}, title : Titles,
              meta_state : {"ok", "absent", "error"}, meta : Metas,
              count_state : {"ok", "absent", "error"}, count_text : CountTexts,
              seo_state : {"ok", "absent", "error"}, seo_text : SeoTexts] :
        /\ (pg.title_state = "error") => (pg.title = <<>>)
        /\ (pg.meta_state # "ok") => (pg.meta = Rep(<<"m">>, MinMeta))
        /\ (pg.count_state # "ok") => (pg.count_text = <<>>)
        /\ (pg.seo_state # "ok") => (pg.seo_text = <<>>) }

----------------------------------------------------------------------------
(* CAPTCHA gate: handle_captcha *)

\* config.CAPTCHA_WAIT_TIMEOUT and config.CAPTCHA_CHECK_INTERVAL, in clock ticks
CAPTCHA_WAIT_TIMEOUT == 4
CAPTCHA_CHECK_INTERVAL == 2

\* gate.pc: "idle", "loop" (line 73), "poll" (line 74), "alert" (lines 79-86),
\* "sleep" (line 88), and the ways out: "Resolved" (return True, line 77),
\* "TimedOut" (return False, line 93), "raised" (find_elements raised).
\*   elapsed     time.time() - start_time
\*   alert_sent  the local of line 69
\*   remaining   the ticks left of the current sleep
\*   alerts, returns   how many calls of _send_captcha_alert and how many
\*               returns so far
\*   alert_outcome   how the call of _send_captcha_alert ended, "" before it
\*   solved_at   elapsed when the marker disappeared, -1 while it has not
\*   sending     the ticks the running call of _send_captcha_alert has taken
\*               so far, 0 outside it
IdleGate ==
    [pc |-> "idle", elapsed |-> 0, alert_sent |-> FALSE, remaining |-> 0,
     alerts |-> 0, alert_outcome |-> "", returns |-> 0, solved_at |-> -1,
     sending |-> 0]

\* lines 69-71
StartedGate == [IdleGate EXCEPT !.pc = "loop"]

\* The loop condition of line 73 with <= in place of <
WithinTimeoutInclusive(elapsed) == elapsed <= CAPTCHA_WAIT_TIMEOUT

\* line 73: the loop condition
WithinTimeout(elapsed) == elapsed < CAPTCHA_WAIT_TIMEOUT

\* The loop of line 73 with start_time taken anew on every pass
GateLoopRestartsClock ==
    /\ gate.pc = "loop"
    /\ gate' = [gate EXCEPT !.pc = "poll", !.elapsed = 0]
    /\ UNCHANGED <<serp, audit, rows, batch, ledger, call, marker>>

\* line 73, and lines 91-93 when the condition fails
GateLoop ==
    /\ gate.pc = "loop"
    /\ IF WithinTimeout(gate.elapsed)
       THEN gate' = [gate EXCEPT !.pc = "poll"]
       ELSE gate' = [gate EXCEPT !.pc = "TimedOut", !.returns = @ + 1]
    /\ UNCHANGED <<serp, audit, rows, batch, ledger, call, marker>>

\* lines 74-79: the marker check
GatePoll ==
    /\ gate.pc = "poll"
    /\ \/ /\ ~marker
          /\ gate' = [gate EXCEPT !.pc = "Resolved", !.returns = @ + 1]
       \/ /\ marker
          /\ gate' = [gate EXCEPT !.pc = IF gate.alert_sent THEN "sleep" ELSE "alert",
                                  !.remaining = CAPTCHA_CHECK_INTERVAL]
       \/ gate' = [gate EXCEPT !.pc = "raised"]
    /\ UNCHANGED <<serp, audit, rows, batch, ledger, call, marker>>

\* lines 45-55: the ways _send_captcha_alert ends: the mail went out (or
\* send_error_email dealt with its own failure), the import of line 48 failed
\* (handler of line 52), or another exception was raised (handler of line 54)
AlertOutcomes == {"sent", "ImportError", "Exception"}

\* The most clock ticks the call of _send_captcha_alert takes: the SMTP
\* conversation of send_error_email blocks while time.time() goes on
MaxAlertTicks == 2

\* Lines 79-86 with line 86 left out: alert_sent stays False
GateAlertForgets ==
    /\ gate.pc = "alert"
    /\ \E outcome \in AlertOutcomes :
         gate' = [gate EXCEPT !.pc = "sleep", !.alerts = @ + 1,
                              !.alert_outcome = outcome, !.sending = 0]
    /\ UNCHANGED <<serp, audit, rows, batch, ledger, call, marker>>

\* Lines 79-86 with _send_captcha_alert lacking its handlers of lines 52-55:
\* a failed send leaves handle_captcha as an exception
GateAlertPropagates ==
    /\ gate.pc = "alert"
    /\ \E outcome \in AlertOutcomes :
         gate' = [gate EXCEPT !.pc = IF outcome = "sent" THEN "sleep" ELSE "raised",
                              !.alert_sent = (outcome = "sent"),
                              !.alerts = @ + 1,
                              !.alert_outcome = outcome, !.sending = 0]
    /\ UNCHANGED <<serp, audit, rows, batch, ledger, call, marker>>

\* line 85: one tick inside the call of _send_captcha_alert, while the SMTP
\* conversation of send_error_email blocks; the human can solve the
\* challenge between two such ticks
GateAlertSending ==
    /\ gate.pc = "alert"
    /\ gate.sending < MaxAlertTicks
    /\ gate' = [gate EXCEPT !.elapsed = @ + 1, !.sending = @ + 1]
    /\ UNCHANGED <<serp, audit, rows, batch, ledger, call, marker>>

\* lines 79-86: the notice, the return of _send_captcha_alert, which contains
\* its own failures (lines 52-55), and alert_sent = True
GateAlert ==
    /\ gate.pc = "alert"
    /\ \E outcome \in AlertOutcomes :
         gate' = [gate EXCEPT !.pc = "sleep", !.alert_sent = TRUE,
                              !.alerts = @ + 1, !.alert_outcome = outcome,
                              !.sending = 0]
    /\ UNCHANGED <<serp, audit, rows, batch, ledger, call, marker>>

\* line 88: one tick of time.sleep(config.CAPTCHA_CHECK_INTERVAL)
GateSleep ==
    /\ gate.pc = "sleep"
    /\ gate' = [gate EXCEPT !.elapsed = @ + 1,
                            !.remaining = @ - 1,
                            !.pc = IF gate.remaining = 1 THEN "loop" ELSE "sleep"]
    /\ UNCHANGED <<serp, audit, rows, batch, ledger, call, marker>>

\* The human solves the challenge: the marker leaves the page and stays away
Solve ==
    /\ gate.pc \in {"loop", "poll", "alert", "sleep"}
    /\ marker
    /\ marker' = FALSE
    /\ gate' = [gate EXCEPT !.solved_at = gate.elapsed]
    /\ UNCHANGED <<serp, audit, rows, batch, ledger, call>>

GateStep == GateLoop \/ GatePoll \/ GateAlertSending \/ GateAlert \/ GateSleep

----------------------------------------------------------------------------
(* Rank search: find_google_rank *)

MAX_PAGES_TO_SCRAPE == 1

Keywords == { <<"k">>, <<"k", "w">> }

\* str() of a positive integer
RECURSIVE Str(_)
Str(n) == IF n < 10 THEN <<Digits[n + 1]>> ELSE Str(n \div 10) \o <<Digits[(n % 10) + 1]>>

NotFound == [rank |-> <<"N", "o", "t", " ", "F", "o", "u", "n", "d">>, url |-> <<>>]

\* The exception classes the model tells apart; all derive from Exception
ExceptionClasses ==
    {"TimeoutException", "NoSuchElementException", "WebDriverException"}

\* The try of find_google_rank with the handler of line 227 alone
HandlesTimeoutOnly(exc) == exc = "TimeoutException"

\* lines 227-230: the two handlers of find_google_rank's try
Handles(exc) == exc = "TimeoutException" \/ exc \in ExceptionClasses

\* call.pc follows find_google_rank: "get" (189), "wait_box" (192), "clear"
\* (193), "type" (194-196), "submit" (197), "detour" (200-201), "loop_head"
\* (204), "captcha_check" (208), "in_gate" (209), "scan" (212-215), "next"
\* (217-225), "except" (227-230), "not_found" (232-233), "returned",
\* "escaped" (an exception left the function).
\*   typed     the characters of keyword sent so far
\*   failed, scans, clicks, detours, gate_false   what happened in this call:
\*             a step raised, scanner invocations, next-page activations,
\*             detours, handle_captcha returned False
IdleCall ==
    [pc |-> "idle", keyword |-> <<>>, target_url |-> <<>>, typed |-> 0,
     page_num |-> 0, current_rank_offset |-> 0, exc |-> "", result |-> NotFound,
     failed |-> FALSE, scans |-> 0, clicks |-> 0, detours |-> 0,
     gate_false |-> FALSE]

StartedCall(keyword, target_url) ==
    [IdleCall EXCEPT !.pc = "get", !.keyword = keyword, !.target_url = target_url]

Raise(exc) == [call EXCEPT !.pc = "except", !.exc = exc, !.failed = TRUE]

\* line 189: driver.get(config.SEARCH_URL)
RankGet ==
    /\ call.pc = "get"
    /\ \/ call' = [call EXCEPT !.pc = "wait_box"]
       \/ \E exc \in {"TimeoutException", "WebDriverException"} : call' = Raise(exc)
    /\ UNCHANGED <<serp, audit, rows, batch, ledger, gate, marker>>

\* line 192: the bounded wait for the query input
RankWaitBox ==
    /\ call.pc = "wait_box"
    /\ \/ call' = [call EXCEPT !.pc = "clear"]
       \/ call' = Raise("TimeoutException")
    /\ UNCHANGED <<serp, audit, rows, batch, ledger, gate, marker>>

\* line 193
RankClear ==
    /\ call.pc = "clear"
    /\ \/ call' = [call EXCEPT !.pc = "type"]
       \/ call' = Raise("WebDriverException")
    /\ UNCHANGED <<serp, audit, rows, batch, ledger, gate, marker>>

\* lines 194-196: one keystroke, or the end of the loop
RankType ==
    /\ call.pc = "type"
    /\ \/ /\ call.typed < Len(call.keyword)
          /\ call' = [call EXCEPT !.typed = @ + 1]
       \/ /\ call.typed < Len(call.keyword)
          /\ call' = Raise("WebDriverException")
       \/ /\ call.typed = Len(call.keyword)
          /\ call' = [call EXCEPT !.pc = "submit"]
    /\ UNCHANGED <<serp, audit, rows, batch, ledger, gate, marker>>

\* lines 197-198: the query is submitted and the results page loads, with or
\* without the challenge marker
RankSubmit ==
    /\ call.pc = "submit"
    /\ \/ /\ call' = [call EXCEPT !.pc = "detour"]
          /\ marker' \in BOOLEAN
       \/ /\ call' = Raise("WebDriverException")
          /\ UNCHANGED marker
    /\ UNCHANGED <<serp, audit, rows, batch, ledger, gate>>

\* lines 200-201: random.random() < DETOUR_PROBABILITY, then the detour, which
\* contains its own failures (lines 132-135) and leaves no local behind
RankDetour ==
    /\ call.pc = "detour"
    /\ \/ call' = [call EXCEPT !.pc = "loop_head", !.page_num = 1]
       \/ call' = [call EXCEPT !.pc = "loop_head", !.page_num = 1, !.detours = @ + 1]
    /\ UNCHANGED <<serp, audit, rows, batch, ledger, gate, marker>>

\* Line 204 with a range one page longer: range(1, MAX_PAGES_TO_SCRAPE + 2)
RankLoopHeadOneMore ==
    /\ call.pc = "loop_head"
    /\ IF call.page_num <= MAX_PAGES_TO_SCRAPE + 1
       THEN call' = [call EXCEPT !.pc = "captcha_check"]
       ELSE call' = [call EXCEPT !.pc = "not_found"]
    /\ UNCHANGED <<serp, audit, rows, batch, ledger, gate, marker>>

\* line 204: for page_num in range(1, MAX_PAGES_TO_SCRAPE + 1), and the sleep
\* of line 206
RankLoopHead ==
    /\ call.pc = "loop_head"
    /\ IF call.page_num <= MAX_PAGES_TO_SCRAPE
       THEN call' = [call EXCEPT !.pc = "captcha_check"]
       ELSE call' = [call EXCEPT !.pc = "not_found"]
    /\ UNCHANGED <<serp, audit, rows, batch, ledger, gate, marker>>

\* lines 208-209: the marker check, and the call of handle_captcha
RankCaptchaCheck ==
    /\ call.pc = "captcha_check"
    /\ \/ /\ marker
          /\ call' = [call EXCEPT !.pc = "in_gate"]
          /\ gate' = StartedGate
       \/ /\ ~marker
          /\ call' = [call EXCEPT !.pc = "scan"]
          /\ UNCHANGED gate
       \/ /\ call' = Raise("WebDriverException")
          /\ UNCHANGED gate
    /\ UNCHANGED <<serp, audit, rows, batch, ledger, marker>>

\* Line 210 without its break: the scan of line 212 follows
AfterGateFalseScans == [call EXCEPT !.pc = "scan", !.gate_false = TRUE]

\* line 210: what find_google_rank does when handle_captcha returned False
AfterGateFalse == [call EXCEPT !.pc = "not_found", !.gate_false = TRUE]

\* lines 209-210: handle_captcha returns (or raises) into find_google_rank
RankGateReturn ==
    /\ call.pc = "in_gate"
    /\ \/ /\ gate.pc = "Resolved"
          /\ call' = [call EXCEPT !.pc = "scan"]
       \/ /\ gate.pc = "TimedOut"
          /\ call' = AfterGateFalse
       \/ /\ gate.pc = "raised"
          /\ call' = Raise("WebDriverException")
    /\ gate' = IdleGate
    /\ UNCHANGED <<serp, audit, rows, batch, ledger, marker>>

\* The results pages a call meets: up to two containers of any kind
CallPages == UNION { [1..n -> Blocks] : n \in 0..2 }

\* Lines 212-215 without the test of line 213: str() of whatever the scanner
\* returned goes back to the caller, "None" and no URL after a miss
RankScanNoNoneCheck ==
    /\ call.pc = "scan"
    /\ \E page \in CallPages :
         LET found == find_rank_on_current_page(page, call.target_url,
                                                call.current_rank_offset)
         IN  call' = [call EXCEPT !.pc = "returned", !.scans = @ + 1,
                                  !.result =
                                     IF found.found
                                     THEN [rank |-> Str(found.rank), url |-> found.url]
                                     ELSE [rank |-> <<"N", "o", "n", "e">>,
                                           url |-> <<>>]]
    /\ UNCHANGED <<serp, audit, rows, batch, ledger, gate, marker>>

\* lines 212-215: the scan of the current page
RankScan ==
    /\ call.pc = "scan"
    /\ \E page \in CallPages :
         LET found == find_rank_on_current_page(page, call.target_url,
                                                call.current_rank_offset)
         IN  IF found.found
             THEN call' = [call EXCEPT !.pc = "returned", !.scans = @ + 1,
                                       !.result = [rank |-> Str(found.rank),
                                                   url |-> found.url]]
             ELSE call' = [call EXCEPT !.pc = "next", !.scans = @ + 1]
    /\ UNCHANGED <<serp, audit, rows, batch, ledger, gate, marker>>

\* Lines 217-225 with a detour after the next-page control is activated
RankNextDetours ==
    /\ call.pc = "next"
    /\ \/ /\ call' = [call EXCEPT !.pc = "not_found"]
          /\ UNCHANGED marker
       \/ /\ call' = Raise("WebDriverException")
          /\ UNCHANGED marker
       \/ /\ call' = [call EXCEPT !.pc = "loop_head", !.clicks = @ + 1,
                                  !.page_num = @ + 1,
                                  !.current_rank_offset = @ + 10,
                                  !.detours = @ + 1]
          /\ marker' \in BOOLEAN
    /\ UNCHANGED <<serp, audit, rows, batch, ledger, gate>>

\* Lines 217-225 without line 222: the offset stays as it is
RankNextKeepsOffset ==
    /\ call.pc = "next"
    /\ \/ /\ call' = [call EXCEPT !.pc = "not_found"]
          /\ UNCHANGED marker
       \/ /\ call' = Raise("WebDriverException")
          /\ UNCHANGED marker
       \/ /\ call' = [call EXCEPT !.pc = "loop_head", !.clicks = @ + 1,
                                  !.page_num = @ + 1]
          /\ marker' \in BOOLEAN
    /\ UNCHANGED <<serp, audit, rows, batch, ledger, gate>>

\* lines 217-225: the next-page control
RankNext ==
    /\ call.pc = "next"
    /\ \/ /\ call' = [call EXCEPT !.pc = "not_found"]       \* lines 223-225
          /\ UNCHANGED marker
       \/ /\ call' = Raise("WebDriverException")            \* lines 218 or 221
          /\ UNCHANGED marker
       \/ /\ call' = [call EXCEPT !.pc = "loop_head", !.clicks = @ + 1,
                                  !.page_num = @ + 1,
                                  !.current_rank_offset = @ + 10]
          /\ marker' \in BOOLEAN
    /\ UNCHANGED <<serp, audit, rows, batch, ledger, gate>>

\* lines 227-230
RankExcept ==
    /\ call.pc = "except"
    /\ IF Handles(call.exc)
       THEN call' = [call EXCEPT !.pc = "not_found"]
       ELSE call' = [call EXCEPT !.pc = "escaped"]
    /\ UNCHANGED <<serp, audit, rows, batch, ledger, gate, marker>>

\* lines 232-233
RankNotFound ==
    /\ call.pc = "not_found"
    /\ call' = [call EXCEPT !.pc = "returned", !.result = NotFound]
    /\ UNCHANGED <<serp, audit, rows, batch, ledger, gate, marker>>

RankStep ==
    \/ RankGet \/ RankWaitBox \/ RankClear \/ RankType \/ RankSubmit
    \/ RankDetour \/ RankLoopHead \/ RankCaptchaCheck \/ RankGateReturn
    \/ RankScan \/ RankNext \/ RankExcept \/ RankNotFound

----------------------------------------------------------------------------
(* Batch loop: main_automator *)

NumRows == 2

FALLBACK_URL == <<"h", "t", "t", "p", "s", ":", "/", "/", "w", "w", "w", ".", "m", "y", "n", "t", "r", "a", ".", "c", "o", "m">>
Completed == <<"C", "o", "m", "p", "l", "e", "t", "e", "d">>
Empty == <<>>

\* headers.index(STATUS_COLUMN_NAME) + 1, line 116, for a sheet whose status
\* column is the eighth
status_col_index == 8

\* The rows of the sheet: raw cell texts
RowKinds ==
    { [Keyword |-> <<"\t", "k", "\n">>, Company1 |-> <<"a", "b", "\n">>,
       Status |-> <<" ">>],
      [Keyword |-> <<"k">>, Company1 |-> <<"a", "b">>, Status |-> Completed],
      [Keyword |-> <<" ", "\t">>, Company1 |-> <<"a", "b">>, Status |-> <<>>],
      [Keyword |-> <<"k", " ">>, Company1 |-> <<>>, Status |-> <<>>] }

\* s.split('?')[0]
BeforeQuery(s) ==
    IF \A k \in 1..Len(s) : s[k] # "?" THEN s
    ELSE SubSeq(s, 1, (CHOOSE k \in 1..Len(s) :
                          s[k] = "?" /\ \A j \in 1..(k - 1) : s[j] # "?") - 1)

\* driver.current_url after an internal search
SearchResultUrls == { <<"s", "?", "q">> }

\* perform_internal_search: loaded is whether both waits (lines 36 and 47)
\* succeed and nothing raises
perform_internal_search(start_url, loaded, current_url) ==
    IF loaded THEN BeforeQuery(current_url) ELSE BeforeQuery(start_url)

GoodPage ==
    [deletion |-> "absent", title_state |-> "ok", title |-> Rep(<<"t">>, MinTitle),
     meta_state |-> "ok", meta |-> Rep(<<"m">>, MinMeta),
     count_state |-> "ok", count_text |-> <<"1", "3">>,
     seo_state |-> "ok", seo_text |-> Rep(<<"w", " ">>, MinWords)]

\* The pages the batch audits: one per outcome of the funnel
BatchAuditPages ==
    { GoodPage,
      [GoodPage EXCEPT !.deletion = "present"],
      [GoodPage EXCEPT !.title = Rep(<<"t">>, MinTitle - 1)],
      [GoodPage EXCEPT !.count_state = "absent", !.count_text = <<>>],
      [GoodPage EXCEPT !.seo_state = "absent", !.seo_text = <<>>] }

\* batch.pc follows the main block: "setup" (106-121), "driver" (123),
\* "row_head" (125-140), "rank" (143), "write_rank" (150-151),
\* "internal_search" (155), "renav" (158-159), "audit" (161-164),
\* "write_audit" (166-183), and the ends: "finished" (the loop is over),
\* "exited" (exit() of line 121), "crashed" (the handler of line 185).
\*   i          the position in df of the row at hand (sheet row i + 1)
\*   failed_in  where the exception that reached line 185 was raised
\*   rank_end   how the row's find_google_rank ended: "found", "captcha" (the
\*              gate timed out), "error" (a step raised), "absent" (scanned,
\*              no match)
IdleBatch ==
    [pc |-> "idle", i |-> 0, keyword |-> <<>>, target_url |-> <<>>,
     found_rank |-> <<>>, ranking_url |-> <<>>, start_url_for_analysis |-> <<>>,
     page_to_analyze |-> <<>>, analysis_status |-> "", failed_in |-> "",
     rank_end |-> ""]

Crash(where) == [batch EXCEPT !.pc = "crashed", !.failed_in = where]

\* worksheet.update_cell(row, col, value), n of them before one raises
Wrote(row, writes, n) ==
    [ledger EXCEPT ![row] = @ \o SubSeq(writes, 1, n)]

\* lines 106-121
BatchSetup ==
    /\ batch.pc = "setup"
    /\ \/ batch' = [batch EXCEPT !.pc = "driver"]
       \/ batch' = [batch EXCEPT !.pc = "exited"]        \* lines 118-121
       \/ batch' = Crash("setup")
    /\ UNCHANGED <<serp, audit, rows, ledger, call, gate, marker>>

\* line 123
BatchDriver ==
    /\ batch.pc = "driver"
    /\ \/ batch' = [batch EXCEPT !.pc = "row_head", !.i = 1]
       \/ batch' = Crash("setup")
    /\ UNCHANGED <<serp, audit, rows, ledger, call, gate, marker>>

\* Lines 125-143 without the status test of lines 131-134
BatchRowHeadNoStatusTest ==
    /\ batch.pc = "row_head"
    /\ \/ /\ batch.i > Len(rows)
          /\ batch' = [batch EXCEPT !.pc = "finished"]
          /\ UNCHANGED call
       \/ /\ batch.i <= Len(rows)
          /\ LET keyword == Strip(rows[batch.i].Keyword)
                 target_url == Strip(rows[batch.i].Company1)
             IN  IF keyword = <<>> \/ target_url = <<>>
                 THEN /\ batch' = [batch EXCEPT !.i = @ + 1]
                      /\ UNCHANGED call
                 ELSE /\ batch' = [batch EXCEPT !.pc = "rank", !.keyword = keyword,
                                                !.target_url = target_url]
                      /\ call' = StartedCall(keyword, target_url)
    /\ UNCHANGED <<serp, audit, rows, ledger, gate, marker>>

\* lines 125-143: the next row, skipped or handed to find_google_rank
BatchRowHead ==
    /\ batch.pc = "row_head"
    /\ \/ /\ batch.i > Len(rows)
          /\ batch' = [batch EXCEPT !.pc = "finished"]
          /\ UNCHANGED call
       \/ /\ batch.i <= Len(rows)
          /\ LET keyword == Strip(rows[batch.i].Keyword)
                 target_url == Strip(rows[batch.i].Company1)
                 status == Strip(rows[batch.i].Status)
             IN  IF status = Completed                          \* lines 132-134
                 THEN /\ batch' = [batch EXCEPT !.i = @ + 1]
                      /\ UNCHANGED call
                 ELSE IF keyword = <<>> \/ target_url = <<>>    \* lines 138-140
                 THEN /\ batch' = [batch EXCEPT !.i = @ + 1]
                      /\ UNCHANGED call
                 ELSE /\ batch' = [batch EXCEPT !.pc = "rank", !.keyword = keyword,
                                                !.target_url = target_url]
                      /\ call' = StartedCall(keyword, target_url)
    /\ UNCHANGED <<serp, audit, rows, ledger, gate, marker>>

\* Lines 145-148 without the else branch: the analysis starts from whatever
\* find_google_rank returned
start_url_no_fallback(ranking_url) == ranking_url

\* lines 145-148
start_url_for(ranking_url) ==
    IF ranking_url # <<>> THEN ranking_url ELSE FALLBACK_URL

\* How the call at hand ended
RankEnd ==
    IF call.gate_false THEN "captcha"
    ELSE IF call.failed THEN "error"
    ELSE IF call.result = NotFound THEN "absent"
    ELSE "found"

\* lines 143-148: find_google_rank returns, or lets an exception through
BatchRankReturn ==
    /\ batch.pc = "rank"
    /\ call.pc \in {"returned", "escaped"}
    /\ IF call.pc = "returned"
       THEN batch' = [batch EXCEPT
                        !.pc = "write_rank",
                        !.found_rank = call.result.rank,
                        !.ranking_url = call.result.url,
                        !.start_url_for_analysis = start_url_for(call.result.url),
                        !.rank_end = RankEnd]
       ELSE batch' = Crash("rank")
    /\ call' = IdleCall
    /\ UNCHANGED <<serp, audit, rows, ledger, gate, marker>>

\* lines 150-151
BatchWriteRank ==
    /\ batch.pc = "write_rank"
    /\ LET writes == << [col |-> 3, value |-> batch.found_rank],
                        [col |-> 4, value |-> batch.ranking_url] >>
       IN  \/ /\ ledger' = Wrote(batch.i, writes, 2)
              /\ batch' = [batch EXCEPT !.pc = "internal_search"]
           \/ \E n \in 0..1 :
                /\ ledger' = Wrote(batch.i, writes, n)
                /\ batch' = Crash("ledger")
    /\ UNCHANGED <<serp, audit, rows, call, gate, marker>>

\* line 155
BatchInternalSearch ==
    /\ batch.pc = "internal_search"
    /\ \E loaded \in BOOLEAN, current_url \in SearchResultUrls :
         batch' = [batch EXCEPT
                     !.pc = "renav",
                     !.page_to_analyze =
                         perform_internal_search(batch.start_url_for_analysis,
                                                 loaded, current_url)]
    /\ UNCHANGED <<serp, audit, rows, ledger, call, gate, marker>>

\* lines 158-159: driver.get and the wait for the body, outside any try of the
\* loop
BatchRenav ==
    /\ batch.pc = "renav"
    /\ \/ batch' = [batch EXCEPT !.pc = "audit"]
       \/ batch' = Crash("renav")
    /\ UNCHANGED <<serp, audit, rows, ledger, call, gate, marker>>

\* lines 161-164
BatchAudit ==
    /\ batch.pc = "audit"
    /\ \E pg \in BatchAuditPages :
         batch' = [batch EXCEPT
                     !.pc = "write_audit",
                     !.analysis_status = analyze_myntra_page(pg, batch.keyword).status]
    /\ UNCHANGED <<serp, audit, rows, ledger, call, gate, marker>>

\* Lines 166-179 with the status cell of line 179 written ahead of the audit
\* cells
AuditWritesMarksFirst(analysis_status, keyword, page_to_analyze) ==
    << [col |-> status_col_index, value |-> Completed] >>
    \o << [col |-> 5, value |-> Empty], [col |-> 6, value |-> Empty],
          [col |-> 7, value |-> Empty] >>
    \o (IF analysis_status = "Deletion" THEN << [col |-> 5, value |-> keyword] >>
        ELSE IF analysis_status = "T&M" THEN << [col |-> 6, value |-> page_to_analyze] >>
        ELSE IF analysis_status = "Content" THEN << [col |-> 7, value |-> page_to_analyze] >>
        ELSE << >>)

\* lines 166-179: the cells written for the row, in order
AuditWrites(analysis_status, keyword, page_to_analyze) ==
    << [col |-> 5, value |-> Empty], [col |-> 6, value |-> Empty],
       [col |-> 7, value |-> Empty] >>
    \o (IF analysis_status = "Deletion" THEN << [col |-> 5, value |-> keyword] >>
        ELSE IF analysis_status = "T&M" THEN << [col |-> 6, value |-> page_to_analyze] >>
        ELSE IF analysis_status = "Content" THEN << [col |-> 7, value |-> page_to_analyze] >>
        ELSE << >>)
    \o << [col |-> status_col_index, value |-> Completed] >>

\* lines 166-183, then the next iteration.  The locals are dead until the next
\* row assigns them, so they are cleared here.
BatchWriteAudit ==
    /\ batch.pc = "write_audit"
    /\ LET writes == AuditWrites(batch.analysis_status, batch.keyword,
                                 batch.page_to_analyze)
       IN  \/ /\ ledger' = Wrote(batch.i, writes, Len(writes))
              /\ batch' = [IdleBatch EXCEPT !.pc = "row_head", !.i = batch.i + 1]
           \/ \E n \in 0..(Len(writes) - 1) :
                /\ ledger' = Wrote(batch.i, writes, n)
                /\ batch' = Crash("ledger")
    /\ UNCHANGED <<serp, audit, rows, call, gate, marker>>

BatchStep ==
    \/ BatchSetup \/ BatchDriver \/ BatchRowHead \/ BatchRankReturn
    \/ BatchWriteRank \/ BatchInternalSearch \/ BatchRenav \/ BatchAudit
    \/ BatchWriteAudit

----------------------------------------------------------------------------
(* Specifications *)

\* tab_present, click_ok: what the page answered to the detour
IdleSerp ==
    [page |-> <<>>, target_url |-> <<>>, rank_offset |-> 0, done |-> "",
     scan |-> NoneNone, detour |-> NoDetour, tab_present |-> FALSE,
     click_ok |-> FALSE]

NoResult == [status |-> "", value |-> <<>>, ran |-> <<>>]

IdleAudit == [page |-> GoodPage, keyword |-> <<>>, runs |-> 0, result |-> NoResult]

\* The scanner applied to the page at hand
SerpScan ==
    /\ serp.done = ""
    /\ serp' = [serp EXCEPT
                  !.done = "scan",
                  !.scan = find_rank_on_current_page(serp.page, serp.target_url,
                                                     serp.rank_offset)]
    /\ UNCHANGED <<audit, rows, batch, ledger, call, gate, marker>>

\* The detour applied to the page at hand
SerpDetour ==
    /\ serp.done = ""
    /\ \E chosen \in detour_options, pick \in 1..MaxBlocks,
          tab_present \in BOOLEAN, click_ok \in BOOLEAN :
         serp' = [serp EXCEPT
                    !.done = "detour",
                    !.tab_present = tab_present,
                    !.click_ok = click_ok,
                    !.detour = perform_random_detour(serp.page, serp.target_url,
                                                     chosen, pick, tab_present,
                                                     click_ok)]
    /\ UNCHANGED <<audit, rows, batch, ledger, call, gate, marker>>

\* How many times the funnel is run on one page
MaxRuns == 3

\* One more call of the funnel on the page at hand, with the keyword of
\* that call: its checks only read the page (find_elements, driver.title,
\* get_attribute, .text)
AuditRun ==
    /\ audit.runs < MaxRuns
    /\ \E keyword \in Keywords :
         audit' = [audit EXCEPT !.runs = @ + 1,
                                !.keyword = keyword,
                                !.result = analyze_myntra_page(audit.page, keyword)]
    /\ UNCHANGED <<serp, rows, batch, ledger, call, gate, marker>>

RestIdle ==
    /\ rows = <<>>
    /\ batch = IdleBatch
    /\ ledger = <<>>
    /\ call = IdleCall
    /\ gate = IdleGate
    /\ marker = FALSE

\* The scanner on every page, target and offset
ScanInit ==
    /\ serp \in { [IdleSerp EXCEPT !.page = pg, !.target_url = t, !.rank_offset = o] :
                    pg \in Pages, t \in Targets, o \in Offsets }
    /\ audit = IdleAudit
    /\ RestIdle

ScanSpec == ScanInit /\ [][SerpScan]_vars

\* The detour on every page and target
DetourInit ==
    /\ serp \in { [IdleSerp EXCEPT !.page = pg, !.target_url = t] :
                    pg \in Pages, t \in Targets }
    /\ audit = IdleAudit
    /\ RestIdle

DetourSpec == DetourInit /\ [][SerpDetour]_vars

\* The funnel on every page state
AuditInit ==
    /\ serp = IdleSerp
    /\ audit \in { [IdleAudit EXCEPT !.page = pg, !.keyword = k] :
                     pg \in AuditPages, k \in Keywords }
    /\ RestIdle

AuditSpec == AuditInit /\ [][AuditRun]_vars

\* One call of find_google_rank
RankInit ==
    /\ serp = IdleSerp
    /\ audit = IdleAudit
    /\ rows = <<>>
    /\ batch = IdleBatch
    /\ ledger = <<>>
    /\ call \in { StartedCall(k, t) : k \in Keywords, t \in Targets \ {<<>>} }
    /\ gate = IdleGate
    /\ marker = FALSE

RankCallNext == RankStep \/ GateStep \/ Solve

RankSpec == RankInit /\ [][RankCallNext]_vars

\* The program keeps running while wall-clock time advances; nothing is asked
\* of the human (Solve)
RankFair == RankSpec /\ WF_vars(RankStep \/ GateStep)

\* The batch run
Init ==
    /\ serp = IdleSerp
    /\ audit = IdleAudit
    /\ rows \in [1..NumRows -> RowKinds]
    /\ batch = [IdleBatch EXCEPT !.pc = "setup"]
    /\ ledger = [i \in 1..NumRows |-> <<>>]
    /\ call = IdleCall
    /\ gate = IdleGate
    /\ marker = FALSE

Next == BatchStep \/ RankStep \/ GateStep \/ Solve

Spec == Init /\ [][Next]_vars

----------------------------------------------------------------------------
(* Properties *)

\* C1: find_google_rank never lets an exception escape: whenever a step of
\* the search raised (a timeout or any other exception), the call returns
\* ("Not Found", "").
C1_NoExceptionEscapes ==
    /\ call.pc # "escaped"
    /\ (call.pc = "returned" /\ call.failed) => call.result = NotFound

\* C1, its case: a step raised something other than a timeout and the call
\* returned
C1_Witness ==
    /\ call.pc = "returned"
    /\ call.failed
    /\ call.exc = "WebDriverException"

\* C2: if the marker disappears at a time t < CAPTCHA_WAIT_TIMEOUT and stays
\* absent, handle_captcha ends in Resolved (returns True), wherever t falls
\* relative to the polling interval.
C2_SolvedInTimeResolves ==
    ( /\ gate.pc \in {"Resolved", "TimedOut"}
      /\ gate.solved_at >= 0
      /\ gate.solved_at < CAPTCHA_WAIT_TIMEOUT )
    => gate.pc = "Resolved"

\* C3: once the elapsed time has reached the timeout with the marker present
\* at every poll, the check of the loop condition ends the gate in TimedOut:
\* it returns False exactly once, and no marker check, alert or sleep follows.
C3_TimedOutOnceThenSilent ==
    /\ [](gate.pc = "TimedOut" =>
            /\ gate.returns = 1
            /\ gate.elapsed >= CAPTCHA_WAIT_TIMEOUT)
    /\ [][ /\ (gate.pc = "loop" /\ gate.elapsed >= CAPTCHA_WAIT_TIMEOUT
                 /\ gate'.pc # "loop")
              => /\ gate'.pc = "TimedOut"
                 /\ gate'.elapsed = gate.elapsed
                 /\ gate'.alerts = gate.alerts
           /\ (gate.pc = "TimedOut")
              => (gate' = gate \/ gate' = IdleGate) ]_vars

\* C3, its case: the marker was there at every poll (an alert went out) and
\* the gate timed out with it still there
C3_Witness ==
    /\ gate.pc = "TimedOut"
    /\ gate.alert_sent
    /\ gate.solved_at = -1
    /\ marker

\* C4: once handle_captcha has returned False, find_google_rank scans no page
\* and activates no next-page control any more, it returns
\* ("Not Found", ""), and the batch goes on with the row (its rank cells are
\* written next) instead of stopping.
C4_CaptchaTimeoutAbandonsTask ==
    [][ call.gate_false =>
          /\ call'.scans = call.scans
          /\ call'.clicks = call.clicks
          /\ \/ call'.pc \in {"not_found", "returned"} /\ call'.gate_false
             \/ /\ call.pc = "returned"
                /\ call.result = NotFound
                /\ call' = IdleCall
                /\ batch'.pc = "write_rank"
                /\ batch'.i = batch.i
                /\ batch'.found_rank = NotFound.rank
                /\ batch'.ranking_url = <<>> ]_vars

\* C4, its case: the gate timed out and the call has returned to the batch loop
C4_Witness ==
    /\ call.gate_false
    /\ call.pc = "returned"
    /\ call.scans = 0
    /\ batch.pc = "rank"

Categories == {"Deletion", "T&M", "Low Product Count", "Content", "Optimized"}

FunnelOrder == <<"deletion", "tm", "count", "content">>

\* C5: analyze_myntra_page returns exactly one category, that of the first
\* rule that matches in the order deletion, title/meta, product count,
\* content, optimized, and calls no check after the one that matched.
C5_FirstMatchWins ==
    (audit.runs = 1) =>
        LET pg == audit.page
            first == IF check_for_deletion(pg) THEN 1
                     ELSE IF check_for_tm_optimization(pg) THEN 2
                     ELSE IF ~is_product_count_sufficient(pg) THEN 3
                     ELSE IF check_for_content_optimization(pg) THEN 4
                     ELSE 5
        IN  /\ audit.result.status \in Categories
            /\ audit.result.status =
                 <<"Deletion", "T&M", "Low Product Count", "Content", "Optimized">>[first]
            /\ audit.result.ran = SubSeq(FunnelOrder, 1, IF first = 5 THEN 4 ELSE first)

\* C5, its case: a no-results indicator together with a title that is too
\* short gives Deletion, and the title/meta check is not run
C5_Witness ==
    /\ audit.runs = 1
    /\ audit.page.deletion = "present"
    /\ audit.page.title_state = "ok"
    /\ Len(audit.page.title) = MinTitle - 1
    /\ audit.result.status = "Deletion"
    /\ audit.result.ran = <<"deletion">>

\* The positions of the organic containers of a page: not an advertisement,
\* with a heading that has a character other than whitespace
OrganicAt(page) ==
    { k \in 1..Len(page) :
        /\ ~page[k].ad
        /\ page[k].h3 = "present"
        /\ \E c \in 1..Len(page[k].text) : page[k].text[c] \notin WS }

\* C6: with organic entries e1..ek in document order, the scanner gives rank
\* o+i to ei and returns (o+i, url of ei) for the smallest i whose link URL
\* contains the target as a substring; it returns (None, None) exactly when
\* no organic entry's URL contains the target.
C6_RankOfFirstMatch ==
    (serp.done = "scan") =>
        LET page == serp.page
            org == OrganicAt(page)
            hits == { k \in org : page[k].link = "url"
                                  /\ Contains(serp.target_url, page[k].href) }
        IN  IF hits = {}
            THEN serp.scan = NoneNone
            ELSE LET k == CHOOSE h \in hits : \A g \in hits : h <= g
                 IN  /\ serp.scan.found
                     /\ serp.scan.url = page[k].href
                     /\ serp.scan.rank =
                          serp.rank_offset + Cardinality({ j \in org : j <= k })

\* C7: a container that is an advertisement, or has no heading or a blank
\* one, takes no rank number and is never the match: the scan gives what it
\* gives on the page without these containers.
C7_FilteredTakeNoRank ==
    (serp.done = "scan") =>
        LET page == serp.page
            kept == SelectSeq(page, LAMBDA b :
                        /\ ~b.ad
                        /\ b.h3 = "present"
                        /\ \E c \in 1..Len(b.text) : b.text[c] \notin WS)
        IN  /\ serp.scan = find_rank_on_current_page(kept, serp.target_url,
                                                     serp.rank_offset)
            /\ serp.scan.found =>
                 \E k \in OrganicAt(page) : page[k].href = serp.scan.url

\* C7, its case: the first container is an advertisement whose URL contains the
\* target; the match is the organic entry after it, with the first rank
C7_Witness ==
    /\ serp.done = "scan"
    /\ Len(serp.page) >= 2
    /\ serp.page[1].ad
    /\ serp.page[1].link = "url"
    /\ Contains(serp.target_url, serp.page[1].href)
    /\ serp.scan.found
    /\ serp.scan.rank = serp.rank_offset + 1

\* C8: when the generic 'random_link' decoy is chosen, the link clicked never
\* has a URL containing the target; if every link contains the target,
\* nothing is clicked.
C8_DecoyIsNeverTheTarget ==
    (serp.done = "detour" /\ serp.detour.chosen = "random_link") =>
        /\ (serp.detour.clicked = "link")
              => ~Contains(serp.target_url, serp.detour.href)
        /\ (\A k \in 1..Len(serp.page) :
                Contains(serp.target_url, HrefOrEmpty(serp.page[k])))
              => serp.detour.clicked = "none"

\* C8, its case: the page holds a link to the target and another link, and the
\* generic decoy clicked one
C8_Witness ==
    /\ serp.done = "detour"
    /\ serp.detour.chosen = "random_link"
    /\ serp.detour.clicked = "link"
    /\ serp.target_url # <<>>
    /\ \E k \in 1..Len(serp.page) :
          serp.page[k].link = "url" /\ Contains(serp.target_url, serp.page[k].href)

\* C9: a failure while a row is processed does not stop the rows after it;
\* only a failure of the setup halts the run.
C9_ErrorsContainedPerRow ==
    (batch.pc = "crashed" /\ batch.failed_in # "setup") =>
        ~\E j \in (batch.i + 1)..Len(rows) :
            /\ Strip(rows[j].Status) # Completed
            /\ Strip(rows[j].Keyword) # <<>>
            /\ Strip(rows[j].Company1) # <<>>

\* C10: every call of find_google_rank returns in the end, whatever the page
\* does, and what exceeded a ceiling (the gate's timeout, a wait) comes back
\* as ("Not Found", "").
C10_CallReturns ==
    (call.pc = "get") ~>
        (call.pc = "returned"
         /\ ((call.gate_false \/ call.failed) => call.result = NotFound))

\* C10, its case: the marker never went away, the gate ran into its timeout
\* and the call returned
C10_Witness ==
    /\ call.pc = "returned"
    /\ call.gate_false
    /\ marker

\* C11: in one invocation of handle_captcha the alert goes out at most once,
\* and only on the first poll (no time has passed but the send's own); an
\* invocation that returns has sent exactly one alert if its first poll found
\* the marker and none if the marker was already gone at the first poll;
\* every invocation starts with no alert sent.
C11_OneAlertOnFirstPoll ==
    /\ [](gate.alerts <= 1)
    /\ [](gate.pc \in {"Resolved", "TimedOut"} =>
            gate.alerts = IF gate.elapsed = 0 THEN 0 ELSE 1)
    /\ [][ /\ (gate'.alerts # gate.alerts /\ gate'.pc # "idle")
              => /\ gate.alerts = 0
                 /\ gate'.alerts = 1
                 /\ gate.elapsed = gate.sending
                 /\ ~gate.alert_sent
           /\ (gate.pc = "idle" /\ gate'.pc # "idle")
              => (gate'.alerts = 0 /\ ~gate'.alert_sent) ]_vars

\* C11, its case: the second row's invocation of the gate sent its one alert
\* on the first poll and polled again after it
C11_Witness ==
    /\ batch.i = 2
    /\ gate.pc = "Resolved"
    /\ gate.alerts = 1
    /\ gate.elapsed >= CAPTCHA_CHECK_INTERVAL

\* C11 as stated: every invocation of handle_captcha that returns has sent
\* exactly one alert.
C11_ExactlyOneAlertAlways ==
    (gate.pc \in {"Resolved", "TimedOut"}) => gate.alerts = 1

\* A check of the funnel was called on the page the audit ran on
Ran(check) == \E k \in 1..Len(audit.result.ran) : audit.result.ran[k] = check

\* C12: an unexpected (not missing-element) error inside the deletion,
\* title/meta, product-count or content check counts as that check passing:
\* the funnel goes on to the next check and the outcome is not that check's
\* category.
C12_UnexpectedErrorPasses ==
    (audit.runs >= 1) =>
        LET pg == audit.page
            status == audit.result.status
        IN  /\ (Ran("deletion") /\ pg.deletion = "error") => status # "Deletion"
            /\ (Ran("tm") /\ (\/ pg.title_state = "error"
                             \/ (pg.title # <<>> /\ pg.meta_state = "error")))
                  => status # "T&M"
            /\ (Ran("count") /\ pg.count_state = "error")
                  => status # "Low Product Count"
            /\ (Ran("content") /\ pg.seo_state = "error") => status # "Content"

\* The page's title and description were read, and the description holds no
\* placeholder character
ReadableTitleMeta(pg) ==
    /\ pg.deletion # "present"
    /\ pg.title_state = "ok"
    /\ pg.meta_state = "ok"
    /\ \A k \in 1..Len(pg.meta) : pg.meta[k] # Glyph

\* The words of a content block made of the word "w" and spaces
Words(text) == Cardinality({ k \in 1..Len(text) : text[k] = "w" })

\* C13: the thresholds are inclusive. With title and description read, the
\* outcome is T&M exactly when the title length is outside 45..70 or the
\* description length outside 145..165 (45, 70, 145 and 165 raise nothing;
\* 44, 71, 144 and 166 do). When the funnel reaches the product count, a count
\* text of "13" is sufficient and one that parses to 12 gives Low Product
\* Count. When it reaches the content block, 250 words raise nothing and
\* fewer do.
C13_ThresholdsInclusive ==
    (audit.runs >= 1) =>
        LET pg == audit.page
            status == audit.result.status
        IN  /\ ReadableTitleMeta(pg) =>
                  ((status = "T&M") <=>
                     ~(/\ 45 <= Len(pg.title) /\ Len(pg.title) <= 70
                       /\ 145 <= Len(pg.meta) /\ Len(pg.meta) <= 165))
            /\ (Ran("count") /\ pg.count_state = "ok") =>
                  /\ (pg.count_text = <<"1", "3">>) => status # "Low Product Count"
                  /\ (pg.count_text = <<"-", " ", "1", "2", " ", "i">>)
                        => status = "Low Product Count"
            /\ (Ran("content") /\ pg.seo_state = "ok") =>
                  ((status = "Content") <=> Words(pg.seo_text) < 250)

\* C13, its case: every value sits on a bound (title 70, description 145,
\* 13 products, 250 words) and the page is Optimized
C13_Witness ==
    /\ audit.runs >= 1
    /\ ReadableTitleMeta(audit.page)
    /\ Len(audit.page.title) = 70
    /\ Len(audit.page.meta) = 145
    /\ audit.page.count_state = "ok"
    /\ audit.page.count_text = <<"1", "3">>
    /\ audit.page.seo_state = "ok"
    /\ Words(audit.page.seo_text) = 250
    /\ audit.result.status = "Optimized"

\* C14: when the scan of page 1 finds no match and the next-page control is
\* there, find_google_rank activates it and moves on to page 2 with offset
\* 10; page 2 lies beyond MAX_PAGES_TO_SCRAPE = 1, so it is not scanned: the
\* scanner has run once and the call returns ("Not Found", "").
C14_AdvancesWithoutRescan ==
    /\ [][ (call'.clicks # call.clicks /\ call'.pc # "idle") =>
              /\ call.pc = "next"
              /\ call'.clicks = call.clicks + 1
              /\ call'.page_num = call.page_num + 1
              /\ call'.current_rank_offset = call.current_rank_offset + 10 ]_vars
    /\ [](call.clicks >= 1 =>
            /\ call.page_num = 2
            /\ call.current_rank_offset = 10
            /\ call.scans = MAX_PAGES_TO_SCRAPE
            /\ call.pc \in {"loop_head", "not_found", "returned"}
            /\ (call.pc = "returned") => call.result = NotFound)

\* C14, its case: page 1 held no match, the next-page control was activated
\* and the call has returned
C14_Witness ==
    /\ call.pc = "returned"
    /\ ~call.failed
    /\ call.clicks = 1
    /\ call.scans = 1
    /\ call.current_rank_offset = 10
    /\ call.result = NotFound

\* C14 as stated: after the next-page control was activated the scanner runs
\* again, on page 2.
C14_RescansPageTwo ==
    (call.pc = "returned" /\ call.clicks >= 1) => call.scans >= 2

\* C15: when the no-results indicator is present the funnel returns the
\* category Deletion with the value 'Yes', whatever the keyword is.
C15_DeletionValueIsYes ==
    (audit.runs >= 1 /\ audit.page.deletion = "present") =>
        /\ audit.result.status = "Deletion"
        /\ audit.result.value = <<"Y", "e", "s">>

\* C15, its case: a page with the no-results indicator, audited for the
\* keyword "kw"
C15_Witness ==
    /\ audit.runs >= 1
    /\ audit.page.deletion = "present"
    /\ audit.keyword = <<"k", "w">>
    /\ audit.result.status = "Deletion"

\* C15 as stated: the value of a Deletion outcome is the keyword.
C15_DeletionValueIsKeyword ==
    (audit.runs >= 1 /\ audit.result.status = "Deletion") =>
        audit.result.value = audit.keyword

C17_DetourOnceBeforeFirstScan ==
    /\ [](call.detours <= 1)
    /\ [][ /\ (call'.detours # call.detours /\ call'.pc # "idle") =>
                /\ call.pc = "detour"
                /\ call.detours = 0
                /\ call.typed = Len(call.keyword)
                /\ call.scans = 0
                /\ call.clicks = 0
           /\ (call'.pc = "detour" /\ call.pc # "detour") => call.pc = "submit" ]_vars

\* C17, its case: a call that made its detour, scanned page 1, activated the
\* next-page control and returned
C17_Witness ==
    /\ call.pc = "returned"
    /\ call.detours = 1
    /\ call.scans = 1
    /\ call.clicks = 1

\* C18: when the chosen tab's element is absent, or the generic decoy finds
\* no link that is not the target's, perform_random_detour clicks nothing and
\* does not navigate back; no exception leaves it; and it navigates back only
\* after a click that went through.
C18_NoClickNoBack ==
    (serp.done = "detour") =>
        LET d == serp.detour
            eligible == { k \in 1..Len(serp.page) :
                            ~Contains(serp.target_url, HrefOrEmpty(serp.page[k])) }
        IN  /\ (d.chosen # "random_link" /\ ~serp.tab_present)
                  => (d.clicked = "none" /\ ~d.back)
            /\ (d.chosen = "random_link" /\ eligible = {})
                  => (d.clicked = "none" /\ ~d.back)
            /\ ~d.escaped
            /\ d.back => (d.clicked # "none" /\ serp.click_ok)

\* C18, its case: a tab decoy was chosen, its element was not on the page,
\* and the NoSuchElementException ended in the handler
C18_Witness ==
    /\ serp.done = "detour"
    /\ serp.detour.chosen \in DETOUR_SELECTORS
    /\ ~serp.tab_present
    /\ serp.detour.raised = "NoSuchElementException"
    /\ serp.detour.clicked = "none"

\* C19: a failed alert send (the import failed, or the send raised) ends
\* inside _send_captcha_alert: the gate goes on to its sleep with alert_sent
\* set, as after a send that worked, and from there on its steps depend on
\* the clock and the marker alone. Every sleep between two polls lasts
\* CAPTCHA_CHECK_INTERVAL, the gate returns True only from a poll that finds
\* no marker and False only once the timeout is reached, and it raises only
\* if a poll itself raises.
C19_AlertFailureContained ==
    /\ [](gate.pc \in {"alert", "sleep"} =>
            gate.remaining \in 1..CAPTCHA_CHECK_INTERVAL)
    /\ [][ /\ (gate.pc = "alert" /\ gate'.pc # "alert") =>
                /\ gate'.pc = "sleep"
                /\ gate'.alert_sent
                /\ gate'.alert_outcome \in AlertOutcomes
                /\ gate'.elapsed = gate.elapsed
                /\ gate'.remaining = CAPTCHA_CHECK_INTERVAL
           /\ (gate.pc = "alert" /\ gate'.pc = "alert") =>
                /\ gate'.elapsed \in {gate.elapsed, gate.elapsed + 1}
                /\ gate'.alert_outcome = "" /\ gate'.remaining = gate.remaining
           /\ (gate.pc = "poll" /\ gate'.pc \in {"alert", "sleep"}) =>
                gate'.remaining = CAPTCHA_CHECK_INTERVAL
           /\ (gate.pc = "sleep" /\ gate'.elapsed # gate.elapsed) =>
                /\ gate'.elapsed = gate.elapsed + 1
                /\ gate'.pc = IF gate.remaining = 1 THEN "loop" ELSE "sleep"
           /\ (gate.pc = "loop" /\ gate'.pc # "loop") =>
                gate'.pc = IF gate.elapsed < CAPTCHA_WAIT_TIMEOUT
                           THEN "poll" ELSE "TimedOut"
           /\ (gate.pc = "poll" /\ gate.alert_outcome # "" /\ gate'.pc # "poll") =>
                \/ gate'.pc = "Resolved" /\ ~marker
                \/ gate'.pc = "sleep" /\ marker
                \/ gate'.pc = "raised"
           /\ (gate'.pc = "raised" /\ gate.pc # "raised") => gate.pc = "poll"
         ]_vars

\* C19, its case: the send raised, the gate kept polling and a later poll
\* found the challenge solved
C19_Witness ==
    /\ gate.pc = "Resolved"
    /\ gate.alert_outcome = "Exception"
    /\ gate.elapsed >= CAPTCHA_CHECK_INTERVAL

\* C20: within one call of find_google_rank the offset is 0 until the first
\* next-page activation and 10*(N-1) while page N is the current page, so
\* that is what the scanner is given for page N; each activation adds exactly
\* 10 and nothing else changes the offset; the scanner runs at most
\* MAX_PAGES_TO_SCRAPE times; and a rank returned from page N is at least
\* 10*(N-1)+1.
C20_OffsetFollowsPage ==
    /\ [](/\ call.current_rank_offset = 10 * call.clicks
          /\ (call.page_num >= 1) =>
                call.current_rank_offset = 10 * (call.page_num - 1)
          /\ (call.page_num = 0) => call.current_rank_offset = 0
          /\ call.scans <= MAX_PAGES_TO_SCRAPE
          /\ (call.pc = "scan") => call.scans = call.page_num - 1
          /\ (call.pc = "returned" /\ call.result # NotFound) =>
                IntOf(call.result.rank) >= 10 * (call.page_num - 1) + 1)
    /\ [][ (call'.current_rank_offset # call.current_rank_offset
            /\ call'.pc # "idle") =>
              /\ call.pc = "next"
              /\ call'.clicks = call.clicks + 1
              /\ call'.current_rank_offset = call.current_rank_offset + 10 ]_vars

\* C20, its case: the scanner ran on page 1 with offset 0 and the call
\* returned the second organic entry, rank "2"
C20_Witness ==
    /\ call.pc = "returned"
    /\ call.scans = 1
    /\ call.page_num = 1
    /\ call.current_rank_offset = 0
    /\ call.result.rank = <<"2">>

\* A decimal numeral of an integer >= 1, as str() writes it
IsRankString(r) ==
    /\ r # <<>>
    /\ \A k \in 1..Len(r) : r[k] \in {"0", "1", "2", "3", "4", "5", "6", "7", "8", "9"}
    /\ r[1] # "0"

\* C21: what find_google_rank returns is either ("Not Found", "") or a pair
\* of the decimal string of an integer >= 1 and a non-empty URL that contains
\* the target; a numeric rank never comes with an empty URL, "Not Found"
\* never with a URL.
C21_ResultWellFormed ==
    (call.pc = "returned") =>
        LET r == call.result.rank
            u == call.result.url
        IN  /\ \/ (r = <<"N", "o", "t", " ", "F", "o", "u", "n", "d">> /\ u = <<>>)
               \/ (IsRankString(r) /\ u # <<>> /\ Contains(call.target_url, u))
            /\ IsRankString(r) => u # <<>>
            /\ (u = <<>>) <=> (r = <<"N", "o", "t", " ", "F", "o", "u", "n", "d">>)

\* C21, its case: the call returned a numeric rank with a URL that has the
\* target inside it
C21_Witness ==
    /\ call.pc = "returned"
    /\ IsRankString(call.result.rank)
    /\ call.result.url # call.target_url
    /\ Contains(call.target_url, call.result.url)

\* The positions in a row's writes at which the status cell was written
StatusWrites(j) == { k \in 1..Len(ledger[j]) : ledger[j][k].col = status_col_index }

\* C22: a row's 'Completed' is the last write of the row: before it come the
\* rank cell, the ranking-URL cell and the three audit cells, in this order.
\* While a row is in work, and when the run has stopped in the middle of it,
\* its status cell has not been written.
C22_CompletedIsLastWrite ==
    /\ \A j \in 1..Len(ledger) : \A k \in StatusWrites(j) :
          /\ k = Len(ledger[j])
          /\ ledger[j][k].value = Completed
          /\ k >= 6
          /\ <<ledger[j][1].col, ledger[j][2].col, ledger[j][3].col,
               ledger[j][4].col, ledger[j][5].col>> = <<3, 4, 5, 6, 7>>
    /\ (batch.pc \in {"rank", "write_rank", "internal_search", "renav", "audit",
                      "write_audit"}
          \/ (batch.pc = "crashed" /\ batch.i \in 1..Len(rows)))
         => StatusWrites(batch.i) = {}

\* C22, its case: the first row was written in full and marked, the run
\* stopped in the second row after its rank and ranking-URL cells and some of
\* its audit cells
C22_Witness ==
    /\ batch.pc = "crashed"
    /\ batch.i = 2
    /\ StatusWrites(1) # {}
    /\ Len(ledger[2]) >= 4

\* The row at hand has its rank search behind it
AfterRank == batch.pc \in {"write_rank", "internal_search", "renav", "audit", "write_audit"}

\* C23: the analysis of a row starts from the URL find_google_rank returned
\* when that is not empty and from FALLBACK_URL otherwise. A row whose search
\* ended by a CAPTCHA timeout or a caught error goes the way of a plain
\* not-found: "Not Found" and an empty URL are what is written to its rank
\* cells, its analysis starts from FALLBACK_URL, and the pass through the row
\* ends with the 'Completed' mark.
C23_FallbackAfterAbandonedSearch ==
    /\ [](AfterRank =>
            /\ batch.start_url_for_analysis =
                  IF batch.ranking_url = <<>>
                  THEN <<"h", "t", "t", "p", "s", ":", "/", "/", "w", "w", "w", ".",
                         "m", "y", "n", "t", "r", "a", ".", "c", "o", "m">>
                  ELSE batch.ranking_url
            /\ (batch.rank_end \in {"captcha", "error", "absent"}) =>
                  /\ batch.found_rank = <<"N", "o", "t", " ", "F", "o", "u", "n", "d">>
                  /\ batch.ranking_url = <<>>
            /\ (batch.pc \notin {"write_rank"}) =>
                  /\ Len(ledger[batch.i]) >= 2
                  /\ ledger[batch.i][1] = [col |-> 3, value |-> batch.found_rank]
                  /\ ledger[batch.i][2] = [col |-> 4, value |-> batch.ranking_url])
    /\ [][ (batch.pc = "write_audit" /\ batch'.pc = "row_head") =>
              /\ ledger'[batch.i][Len(ledger'[batch.i])] =
                    [col |-> status_col_index, value |-> Completed]
              /\ batch'.i = batch.i + 1 ]_vars

\* C23, its case: the gate timed out in the row's search; "Not Found" and an
\* empty URL are in its rank cells and its audit, started from FALLBACK_URL,
\* is about to be written
C23_Witness ==
    /\ batch.pc = "write_audit"
    /\ batch.rank_end = "captcha"
    /\ batch.start_url_for_analysis = FALLBACK_URL
    /\ ledger[batch.i][1].value = NotFound.rank

\* The rows the loop passes over: status 'Completed' at load time, or no
\* keyword or no target once the cell text is stripped
Skipped(j) ==
    \/ Strip(rows[j].Status) = <<"C", "o", "m", "p", "l", "e", "t", "e", "d">>
    \/ Strip(rows[j].Keyword) = <<>>
    \/ Strip(rows[j].Company1) = <<>>

\* The batch is inside a row: its search, its writes, its navigation or audit
InRow ==
    batch.pc \in {"rank", "write_rank", "internal_search", "renav", "audit",
                  "write_audit"}

\* C24: a row that is 'Completed' at load time, or has no keyword or no
\* target, gets no write (so no 'Completed' mark either) and no browser
\* action: the loop is never inside such a row and no search runs for it.
\* Rows are taken one at a time in sheet order: the position moves on by one,
\* writes go to the row at hand only, and rows further down are untouched.
C24_SkippedRowsUntouched ==
    /\ [](\A j \in 1..Len(rows) :
            /\ Skipped(j) => (ledger[j] = <<>> /\ ~(InRow /\ batch.i = j))
            /\ (j > batch.i) => ledger[j] = <<>>)
    /\ [](call.pc # "idle" => (InRow /\ ~Skipped(batch.i)))
    /\ [][ /\ batch'.i \in {batch.i, batch.i + 1}
           /\ \A j \in 1..Len(rows) :
                (ledger'[j] # ledger[j]) => (j = batch.i /\ InRow) ]_vars

\* C24, its case: the first row was 'Completed' at load time and the second
\* has no target; the run is over and neither got a write
C24_Witness ==
    /\ batch.pc = "finished"
    /\ rows[1].Status = Completed
    /\ rows[2].Company1 = <<>>
    /\ rows[2].Status # Completed
    /\ ledger[1] = <<>>
    /\ ledger[2] = <<>>

====
